---- MODULE Spec2Model ----
(***************************************************************************)
(* ads.txt parser (src/src/lib.rs).                                        *)
(*                                                                         *)
(* A Rust string is modelled as a sequence of one-character strings, so    *)
(* that trimming, splitting, case folding and message formatting are       *)
(* computed character by character as the library computes them. The       *)
(* characters are those of U+0000..U+00FF.                                 *)
(* Result<T> is [ok |-> TRUE, value |-> v] or [ok |-> FALSE, message |-> m]*)
(* and Option<String> is [some |-> FALSE] or [some |-> TRUE, value |-> s]. *)
(***************************************************************************)
EXTENDS Naturals, Sequences, FiniteSets

VARIABLES text, call

vars == <<text, call>>

(***************************************************************************)
(* Bounds of the explored inputs.                                          *)
(***************************************************************************)
MaxFields == 5
MaxLines == 2

(***************************************************************************)
(* String literals of the source.                                          *)
(***************************************************************************)
S_direct ==
    <<"d", "i", "r", "e", "c", "t">>
S_reseller ==
    <<"r", "e", "s", "e", "l", "l", "e", "r">>
S_subdomain ==
    <<"s", "u", "b", "d", "o", "m", "a", "i", "n">>
S_contact ==
    <<"c", "o", "n", "t", "a", "c", "t">>
MsgInvalidAccountRelation ==
    <<"I", "n", "v", "a", "l", "i", "d", " ", "a", "c", "c", "o", "u", "n", "t", " ", "r", "e", "l", "a", "t", "i", "o", "n", ":", " ">>
MsgInvalidDataRecord ==
    <<"I", "n", "v", "a", "l", "i", "d", " ", "d", "a", "t", "a", " ", "r", "e", "c", "o", "r", "d", ":", " ">>
MsgInvalidVariableRecord ==
    <<"I", "n", "v", "a", "l", "i", "d", " ", "v", "a", "r", "i", "a", "b", "l", "e", " ", "r", "e", "c", "o", "r", "d", ":", " ">>
MsgInvalidLine ==
    <<"I", "n", "v", "a", "l", "i", "d", " ", "a", "d", "s", ".", "t", "x", "t", " ", "l", "i", "n", "e", ":", " ">>

(***************************************************************************)
(* The standard-library string operations the source calls, over the       *)
(* characters U+0000..U+00FF.                                              *)
(***************************************************************************)
UpperLetters ==
    <<"A", "B", "C", "D", "E", "F", "G", "H", "I", "J", "K", "L", "M",
      "N", "O", "P", "Q", "R", "S", "T", "U", "V", "W", "X", "Y", "Z">>
LowerLetters ==
    <<"a", "b", "c", "d", "e", "f", "g", "h", "i", "j", "k", "l", "m",
      "n", "o", "p", "q", "r", "s", "t", "u", "v", "w", "x", "y", "z">>

\* the upper-case letters U+00C0..U+00DE (U+00D7, the multiplication sign, is
\* none) and their lower-case forms U+00E0..U+00FE
UpperLatin1 ==
    <<"À", "Á", "Â", "Ã", "Ä", "Å", "Æ", "Ç", "È", "É",
      "Ê", "Ë", "Ì", "Í", "Î", "Ï", "Ð", "Ñ", "Ò", "Ó",
      "Ô", "Õ", "Ö", "Ø", "Ù", "Ú", "Û", "Ü", "Ý", "Þ">>
LowerLatin1 ==
    <<"à", "á", "â", "ã", "ä", "å", "æ", "ç", "è", "é",
      "ê", "ë", "ì", "í", "î", "ï", "ð", "ñ", "ò", "ó",
      "ô", "õ", "ö", "ø", "ù", "ú", "û", "ü", "ý", "þ">>

\* the vertical tab U+000B, the next-line character U+0085 and the no-break
\* space U+00A0
VT == ""
NEL == ""
NBSP == " "

\* char::is_whitespace: the White_Space characters up to U+00FF
is_whitespace(c) == c \in {" ", "\t", "\n", VT, "\f", "\r", NEL, NBSP}

\* u8::to_ascii_lowercase: A..Z only
ascii_lower_char(c) ==
    IF \E k \in 1..26 : UpperLetters[k] = c
    THEN LowerLetters[CHOOSE k \in 1..26 : UpperLetters[k] = c]
    ELSE c

\* the Unicode lower-case form of one character
lower_char(c) ==
    IF \E k \in 1..30 : UpperLatin1[k] = c
    THEN LowerLatin1[CHOOSE k \in 1..30 : UpperLatin1[k] = c]
    ELSE ascii_lower_char(c)

\* str::to_lowercase: up to U+00FF every character lowers to one character
to_lowercase(s) == [i \in 1..Len(s) |-> lower_char(s[i])]

\* str::eq_ignore_ascii_case
eq_ignore_ascii_case(a, b) ==
    /\ Len(a) = Len(b)
    /\ \A i \in 1..Len(a) : ascii_lower_char(a[i]) = ascii_lower_char(b[i])

SetMin(S) == CHOOSE x \in S : \A y \in S : x <= y
SetMax(S) == CHOOSE x \in S : \A y \in S : y <= x

\* the positions of s that hold no whitespace
Solid(s) == {i \in 1..Len(s) : ~is_whitespace(s[i])}

\* str::trim_start
trim_start(s) ==
    IF Solid(s) = {} THEN <<>> ELSE SubSeq(s, SetMin(Solid(s)), Len(s))

\* str::trim
trim(s) ==
    IF Solid(s) = {} THEN <<>>
    ELSE SubSeq(s, SetMin(Solid(s)), SetMax(Solid(s)))

\* str::starts_with
starts_with(s, p) == Len(s) >= Len(p) /\ SubSeq(s, 1, Len(p)) = p

\* the positions of s that hold the character c
Occurrences(s, c) == {i \in 1..Len(s) : s[i] = c}

\* str::split(c).collect(): the pieces between the occurrences of c; a
\* string without c, the empty one included, is one piece
RECURSIVE split(_, _)
split(s, c) ==
    IF Occurrences(s, c) = {} THEN <<s>>
    ELSE LET i == SetMin(Occurrences(s, c))
         IN  <<SubSeq(s, 1, i - 1)>> \o split(SubSeq(s, i + 1, Len(s)), c)

\* str::lines(): pieces ended by "\n", a "\r" right before it dropped too;
\* the last piece needs no "\n", and nothing follows a final "\n"
RECURSIVE lines(_)
lines(s) ==
    IF s = <<>> THEN <<>>
    ELSE IF Occurrences(s, "\n") = {} THEN <<s>>
    ELSE LET i == SetMin(Occurrences(s, "\n"))
             raw == SubSeq(s, 1, i - 1)
             line == IF raw # <<>> /\ raw[Len(raw)] = "\r"
                     THEN SubSeq(raw, 1, Len(raw) - 1)
                     ELSE raw
         IN  <<line>> \o lines(SubSeq(s, i + 1, Len(s)))

(***************************************************************************)
(* Result, Option and the error value.                                     *)
(***************************************************************************)
Ok(v) == [ok |-> TRUE, value |-> v]

\* AdsTxtError::new
AdsTxtError_new(message) == [message |-> message]

\* ads_txt_error: Err(Box::new(AdsTxtError::new(message)))
ads_txt_error(message) == [ok |-> FALSE, message |-> AdsTxtError_new(message).message]

None == [some |-> FALSE]
Some(v) == [some |-> TRUE, value |-> v]

Direct == "Direct"
Reseller == "Reseller"

(***************************************************************************)
(* AccountRelation::parse                                                  *)
(***************************************************************************)
\* AccountRelation::parse with the normalised token in the error message
AccountRelation_parse_normalised_message(t) ==
    LET relation == to_lowercase(trim(t))
    IN  IF relation = S_direct THEN Ok(Direct)
        ELSE IF relation = S_reseller THEN Ok(Reseller)
        ELSE ads_txt_error(MsgInvalidAccountRelation \o relation)

AccountRelation_parse(t) ==
    LET relation == to_lowercase(trim(t))
    IN  IF relation = S_direct THEN Ok(Direct)
        ELSE IF relation = S_reseller THEN Ok(Reseller)
        ELSE ads_txt_error(MsgInvalidAccountRelation \o t)

(***************************************************************************)
(* DataRecord::new and DataRecord::parse                                   *)
(***************************************************************************)
DataRecord_new(domain, publisher_id, acc_relation, cert_authority) ==
    [domain |-> trim(domain),
     publisher_id |-> trim(publisher_id),
     acc_relation |-> acc_relation,
     cert_authority |-> cert_authority]

\* DataRecord::parse taking every line of four fields or more as one of four
DataRecord_parse_four_or_more(record_text) ==
    LET fields == split(record_text, ",")
        rel == AccountRelation_parse(fields[3])
    IN  CASE Len(fields) = 3 ->
               IF rel.ok
               THEN Ok([domain |-> trim(fields[1]),
                        publisher_id |-> trim(fields[2]),
                        acc_relation |-> rel.value,
                        cert_authority |-> None])
               ELSE rel
          [] Len(fields) >= 4 ->
               IF rel.ok
               THEN Ok([domain |-> trim(fields[1]),
                        publisher_id |-> trim(fields[2]),
                        acc_relation |-> rel.value,
                        cert_authority |-> Some(trim(fields[4]))])
               ELSE rel
          [] OTHER -> ads_txt_error(MsgInvalidDataRecord \o record_text)

\* DataRecord::parse reading the domain from the second field
DataRecord_parse_shifted_domain(record_text) ==
    LET fields == split(record_text, ",")
        rel == AccountRelation_parse(fields[3])
    IN  CASE Len(fields) = 3 ->
               IF rel.ok
               THEN Ok([domain |-> trim(fields[2]),
                        publisher_id |-> trim(fields[2]),
                        acc_relation |-> rel.value,
                        cert_authority |-> None])
               ELSE rel
          [] Len(fields) = 4 ->
               IF rel.ok
               THEN Ok([domain |-> trim(fields[2]),
                        publisher_id |-> trim(fields[2]),
                        acc_relation |-> rel.value,
                        cert_authority |-> Some(trim(fields[4]))])
               ELSE rel
          [] OTHER -> ads_txt_error(MsgInvalidDataRecord \o record_text)

DataRecord_parse(record_text) ==
    LET fields == split(record_text, ",")
        rel == AccountRelation_parse(fields[3])
    IN  CASE Len(fields) = 3 ->
               IF rel.ok
               THEN Ok([domain |-> trim(fields[1]),
                        publisher_id |-> trim(fields[2]),
                        acc_relation |-> rel.value,
                        cert_authority |-> None])
               ELSE rel
          [] Len(fields) = 4 ->
               IF rel.ok
               THEN Ok([domain |-> trim(fields[1]),
                        publisher_id |-> trim(fields[2]),
                        acc_relation |-> rel.value,
                        cert_authority |-> Some(trim(fields[4]))])
               ELSE rel
          [] OTHER -> ads_txt_error(MsgInvalidDataRecord \o record_text)

(***************************************************************************)
(* Variable::new and Variable::parse                                       *)
(***************************************************************************)
Variable_new(name, value) == [name |-> name, value |-> value]

\* Variable::parse cutting the line at its first '=' only
Variable_parse_first_equals(line) ==
    IF Occurrences(line, "=") # {}
    THEN LET i == SetMin(Occurrences(line, "="))
         IN  Ok([name |-> trim(SubSeq(line, 1, i - 1)),
                 value |-> trim(SubSeq(line, i + 1, Len(line)))])
    ELSE ads_txt_error(MsgInvalidVariableRecord \o line)

Variable_parse(line) ==
    LET fields == split(line, "=")
    IN  IF Len(fields) = 2
        THEN Ok([name |-> trim(fields[1]), value |-> trim(fields[2])])
        ELSE ads_txt_error(MsgInvalidVariableRecord \o line)

(***************************************************************************)
(* AdsTxt                                                                  *)
(***************************************************************************)
\* is_comment comparing the whole line with "#"
AdsTxt_is_comment_whole_line(line) == line = <<"#">>

AdsTxt_is_comment(line) == starts_with(line, <<"#">>)

AdsTxt_new(records, variables) == [records |-> records, variables |-> variables]

AdsTxt_empty == AdsTxt_new(<<>>, <<>>)

\* the loop of AdsTxt::parse with the line as read, not left-trimmed, in the
\* error message
RECURSIVE parse_loop_raw_line(_, _, _, _)
parse_loop_raw_line(ls, i, records, variables) ==
    IF i > Len(ls) THEN Ok([records |-> records, variables |-> variables])
    ELSE LET line == trim_start(ls[i])
             record == DataRecord_parse(line)
             variable == Variable_parse(line)
         IN  IF line = <<>> \/ AdsTxt_is_comment(line)
             THEN parse_loop_raw_line(ls, i + 1, records, variables)
             ELSE IF record.ok
             THEN parse_loop_raw_line(ls, i + 1, Append(records, record.value), variables)
             ELSE IF variable.ok
             THEN parse_loop_raw_line(ls, i + 1, records, Append(variables, variable.value))
             ELSE ads_txt_error(MsgInvalidLine \o ls[i])

\* AdsTxt::parse: the loop over ls from line i on, with the records and
\* variables pushed so far; the first line that is neither ends it
RECURSIVE parse_loop(_, _, _, _)
parse_loop(ls, i, records, variables) ==
    IF i > Len(ls) THEN Ok([records |-> records, variables |-> variables])
    ELSE LET line == trim_start(ls[i])
             record == DataRecord_parse(line)
             variable == Variable_parse(line)
         IN  IF line = <<>> \/ AdsTxt_is_comment(line)
             THEN parse_loop(ls, i + 1, records, variables)
             ELSE IF record.ok
             THEN parse_loop(ls, i + 1, Append(records, record.value), variables)
             ELSE IF variable.ok
             THEN parse_loop(ls, i + 1, records, Append(variables, variable.value))
             ELSE ads_txt_error(MsgInvalidLine \o line)

AdsTxt_parse(s) == parse_loop(lines(s), 1, <<>>, <<>>)

\* the turn of the lenient loop trying Variable::parse first
lenient_step_variable_first(acc, raw) ==
    LET line == trim_start(raw)
        record == DataRecord_parse(line)
        variable == Variable_parse(line)
    IN  IF line = <<>> \/ AdsTxt_is_comment(line) THEN acc
        ELSE IF variable.ok
        THEN [acc EXCEPT !.variables = Append(@, variable.value)]
        ELSE IF record.ok
        THEN [acc EXCEPT !.records = Append(@, record.value)]
        ELSE [acc EXCEPT !.errors = Append(@, AdsTxtError_new(MsgInvalidLine \o line))]

\* the turn of the lenient loop collecting the record parser's error
lenient_step_record_error(acc, raw) ==
    LET line == trim_start(raw)
        record == DataRecord_parse(line)
        variable == Variable_parse(line)
    IN  IF line = <<>> \/ AdsTxt_is_comment(line) THEN acc
        ELSE IF record.ok
        THEN [acc EXCEPT !.records = Append(@, record.value)]
        ELSE IF variable.ok
        THEN [acc EXCEPT !.variables = Append(@, variable.value)]
        ELSE [acc EXCEPT !.errors = Append(@, AdsTxtError_new(record.message))]

\* AdsTxt::parse_lenient: one turn of the loop, on the raw line, from the
\* records, variables and errors collected so far
lenient_step(acc, raw) ==
    LET line == trim_start(raw)
        record == DataRecord_parse(line)
        variable == Variable_parse(line)
    IN  IF line = <<>> \/ AdsTxt_is_comment(line) THEN acc
        ELSE IF record.ok
        THEN [acc EXCEPT !.records = Append(@, record.value)]
        ELSE IF variable.ok
        THEN [acc EXCEPT !.variables = Append(@, variable.value)]
        ELSE [acc EXCEPT !.errors = Append(@, AdsTxtError_new(MsgInvalidLine \o line))]

RECURSIVE lenient_loop(_, _, _)
lenient_loop(ls, i, acc) ==
    IF i > Len(ls) THEN acc
    ELSE lenient_loop(ls, i + 1, lenient_step(acc, ls[i]))

\* the pair (AdsTxt, Vec<AdsTxtError>)
AdsTxt_parse_lenient(s) ==
    LET acc == lenient_loop(lines(s), 1,
                            [records |-> <<>>, variables |-> <<>>, errors |-> <<>>])
    IN  [doc |-> [records |-> acc.records, variables |-> acc.variables],
         errors |-> acc.errors]

\* the values of the variables of vs from i on that satisfy the accessor's test
RECURSIVE values_loop(_, _, _)
values_loop(vs, i, name) ==
    IF i > Len(vs) THEN <<>>
    ELSE (IF vs[i].name = name THEN <<vs[i].value>> ELSE <<>>)
         \o values_loop(vs, i + 1, name)

\* values() comparing the names without regard to letter case
AdsTxt_values_ignore_case(doc, name) ==
    LET keep(v) == eq_ignore_ascii_case(v.name, name)
        kept == SelectSeq(doc.variables, keep)
    IN  [i \in 1..Len(kept) |-> kept[i].value]

AdsTxt_values(doc, name) == values_loop(doc.variables, 1, name)

RECURSIVE sub_domains_loop(_, _)
sub_domains_loop(vs, i) ==
    IF i > Len(vs) THEN <<>>
    ELSE (IF eq_ignore_ascii_case(vs[i].name, S_subdomain)
          THEN <<vs[i].value>> ELSE <<>>)
         \o sub_domains_loop(vs, i + 1)

AdsTxt_sub_domains(doc) == sub_domains_loop(doc.variables, 1)

RECURSIVE contacts_loop(_, _)
contacts_loop(vs, i) ==
    IF i > Len(vs) THEN <<>>
    ELSE (IF eq_ignore_ascii_case(vs[i].name, S_contact)
          THEN <<vs[i].value>> ELSE <<>>)
         \o contacts_loop(vs, i + 1)

AdsTxt_contacts(doc) == contacts_loop(doc.variables, 1)

(***************************************************************************)
(* The explored inputs: relation tokens, single lines built field by       *)
(* field, and documents of whole lines.                                    *)
(***************************************************************************)
Words ==
    { <<"d", "i", "r", "e", "c", "t">>,
      <<"D", "I", "r", "e", "c", "T">>,
      <<"R", "E", "S", "E", "L", "L", "E", "R">>,
      <<"r", "e", "s", "e", "l", "l", "e", "r">>,
      <<"d", "i", "r">>,
      <<"d", "i", "r", "e", "c", "t", "x">>,
      <<"d", "i", " ", "r", "e", "c", "t">>,
      <<"D", "I", "R", "É", "C", "T">>,
      <<>> }
Pads ==
    { <<>>, <<" ">>, <<"\t", " ">>, <<VT, NBSP>> }
FieldPool ==
    { <<>>,
      <<NBSP, "a", "\t">>,
      <<"n", "=", "v">>,
      <<" ", "D", "I", "r", "e", "c", "T", " ">> }
DocLinePool ==
    { <<>>,
      <<" ", " ", "#", " ", "c">>,
      <<VT, "#", "c", NEL>>,
      <<" ", "g", "r", "e", "e", "n", ",", " ", "1", "2", ",", " ", "D", "I", "R", "E", "C", "T", ",", " ", "d", "7">>,
      <<"s", "u", "b", "d", "o", "m", "a", "i", "n", "=", "o", "n", "e">>,
      <<"S", "U", "B", "D", "O", "M", "A", "I", "N", " ", "=", " ", "t", "w", "o">>,
      <<"c", "o", "n", "t", "a", "c", "t", "=", "c">>,
      <<"s", "i", "l", "v", "e", "r", ",", " ", "5", "5">>,
      <<",", "1", ",", "d", "i", "r", "e", "c", "t">>,
      <<"a", "=", "b", ",", "c", ",", "d">>,
      <<"k", "=", "v", ",", "x", ",", "R", "e", "s", "e", "l", "l", "e", "r">>,
      <<"a", "=", "b", "=", "c">> }

\* the pieces of ps with sep between them
RECURSIVE Join(_, _)
Join(ps, sep) ==
    IF Len(ps) = 0 THEN <<>>
    ELSE IF Len(ps) = 1 THEN ps[1]
    ELSE ps[1] \o sep \o Join(Tail(ps), sep)

SeqsUpTo(S, lo, hi) == UNION {[1..k -> S] : k \in lo..hi}

TokenInputs == {p \o w \o q : p \in Pads, w \in Words, q \in Pads}
LineInputs == {Join(fs, <<",">>) : fs \in SeqsUpTo(FieldPool, 1, MaxFields)}
DocInputs ==
    {Join(ls, <<"\n">>) \o end :
        ls \in SeqsUpTo(DocLinePool, 0, MaxLines), end \in {<<>>, <<"\n">>}}
Inputs == TokenInputs \cup LineInputs \cup DocInputs

\* the names looked up with values()
QueryNames == {S_subdomain, S_contact, <<"S", "U", "B", "D", "O", "M", "A", "I", "N">>}

\* the strings handed to the constructors
ArgPool == {text, trim(text)}

\* the Documents the accessors are called on
Documents == {AdsTxt_parse_lenient(text).doc, AdsTxt_empty}

(***************************************************************************)
(* The state machine: an input text and the one call made on it, with its  *)
(* result. A behaviour is one scenario: an input is drawn, then one        *)
(* operation of the library is applied to it.                              *)
(***************************************************************************)
NoCall == [op |-> "none"]

Init ==
    /\ text \in Inputs
    /\ call = NoCall

CallParse ==
    /\ call = NoCall
    /\ call' = [op |-> "AdsTxt::parse", result |-> AdsTxt_parse(text)]
    /\ UNCHANGED text

CallParseLenient ==
    /\ call = NoCall
    /\ call' = [op |-> "AdsTxt::parse_lenient",
                result |-> AdsTxt_parse_lenient(text)]
    /\ UNCHANGED text

CallAccountRelationParse ==
    /\ call = NoCall
    /\ call' = [op |-> "AccountRelation::parse",
                result |-> AccountRelation_parse(text)]
    /\ UNCHANGED text

CallDataRecordParse ==
    /\ call = NoCall
    /\ call' = [op |-> "DataRecord::parse", result |-> DataRecord_parse(text)]
    /\ UNCHANGED text

CallVariableParse ==
    /\ call = NoCall
    /\ call' = [op |-> "Variable::parse", result |-> Variable_parse(text)]
    /\ UNCHANGED text

CallDataRecordNew ==
    /\ call = NoCall
    /\ \E rel \in {Direct, Reseller}, cert \in {None, Some(text)} :
          call' = [op |-> "DataRecord::new",
                   result |-> DataRecord_new(text, text, rel, cert)]
    /\ UNCHANGED text

CallVariableNew ==
    /\ call = NoCall
    /\ \E name \in ArgPool :
          call' = [op |-> "Variable::new", result |-> Variable_new(name, text)]
    /\ UNCHANGED text

CallValues ==
    /\ call = NoCall
    /\ \E doc \in Documents, name \in QueryNames :
          call' = [op |-> "AdsTxt::values", doc |-> doc, name |-> name,
                   result |-> AdsTxt_values(doc, name)]
    /\ UNCHANGED text

CallSubDomains ==
    /\ call = NoCall
    /\ \E doc \in Documents :
          call' = [op |-> "AdsTxt::sub_domains", doc |-> doc,
                   result |-> AdsTxt_sub_domains(doc)]
    /\ UNCHANGED text

CallContacts ==
    /\ call = NoCall
    /\ \E doc \in Documents :
          call' = [op |-> "AdsTxt::contacts", doc |-> doc,
                   result |-> AdsTxt_contacts(doc)]
    /\ UNCHANGED text

Next ==
    \/ CallParse
    \/ CallParseLenient
    \/ CallAccountRelationParse
    \/ CallDataRecordParse
    \/ CallVariableParse
    \/ CallDataRecordNew
    \/ CallVariableNew
    \/ CallValues
    \/ CallSubDomains
    \/ CallContacts

Spec == Init /\ [][Next]_vars

(***************************************************************************)
(* What the claims speak of, stated on the text itself and not through the *)
(* loops above.                                                            *)
(***************************************************************************)
\* t is the word w in any letter case with nothing but whitespace around it
ReadsAs(t, w) ==
    \E i \in 1..(Len(t) + 1) :
        /\ i + Len(w) - 1 <= Len(t)
        /\ \A k \in 1..Len(w) :
              \E j \in 1..26 :
                  /\ LowerLetters[j] = w[k]
                  /\ t[i + k - 1] \in {LowerLetters[j], UpperLetters[j]}
        /\ \A k \in 1..Len(t) :
              (k < i \/ k >= i + Len(w)) => is_whitespace(t[k])

\* the number of fields the separator c cuts the line into
FieldCount(l, c) == Cardinality(Occurrences(l, c)) + 1

\* the text of l before its first c, and after its last c
Before(l, c) == SubSeq(l, 1, SetMin(Occurrences(l, c)) - 1)
After(l, c) == SubSeq(l, SetMax(Occurrences(l, c)) + 1, Len(l))

\* s neither begins nor ends with whitespace
Trimmed(s) == s = <<>> \/ (~is_whitespace(s[1]) /\ ~is_whitespace(s[Len(s)]))
RecordTrimmed(r) ==
    /\ Trimmed(r.domain)
    /\ Trimmed(r.publisher_id)
    /\ r.cert_authority.some => Trimmed(r.cert_authority.value)
VariableTrimmed(v) == Trimmed(v.name) /\ Trimmed(v.value)
DocTrimmed(doc) ==
    /\ \A i \in 1..Len(doc.records) : RecordTrimmed(doc.records[i])
    /\ \A i \in 1..Len(doc.variables) : VariableTrimmed(doc.variables[i])

\* the lines of the text, left-trimmed, that are neither blank nor comments
NotBlankNorComment(l) == l # <<>> /\ l[1] # "#"
Content ==
    LET ls == lines(text)
    IN  SelectSeq([i \in 1..Len(ls) |-> trim_start(ls[i])], NotBlankNorComment)

IsRecord(l) == DataRecord_parse(l).ok
IsVariable(l) == Variable_parse(l).ok
IsBoth(l) == IsRecord(l) /\ IsVariable(l)
IsOnlyVariable(l) == ~IsRecord(l) /\ IsVariable(l)
IsNeither(l) == ~IsRecord(l) /\ ~IsVariable(l)

\* the number of TRUE entries of a sequence of booleans
CountTrue(f) == Cardinality({i \in DOMAIN f : f[i]})

\* the strict parse was called and returned a Document / an error
StrictCalled == call.op = "AdsTxt::parse"
StrictOk == StrictCalled /\ call.result.ok
StrictErr == StrictCalled /\ ~call.result.ok
\* the lenient parse was called
LenientCalled == call.op = "AdsTxt::parse_lenient"

\* C1: AdsTxt::parse(I) is Ok with the Document of parse_lenient(I) when the
\* lenient error list is empty, and otherwise Err with the first lenient
\* error, whose message is 'Invalid ads.txt line: ' followed by the
\* left-trimmed first line that is neither a record nor a variable.
C1_StrictIsLenient ==
    StrictCalled =>
        LET l == AdsTxt_parse_lenient(text)
        IN  IF l.errors = <<>>
            THEN /\ call.result.ok
                 /\ call.result.value = l.doc
            ELSE /\ ~call.result.ok
                 /\ call.result.message = l.errors[1].message
                 /\ call.result.message
                       = MsgInvalidLine \o SelectSeq(Content, IsNeither)[1]

\* C1 witness: the strict parse failed on a text with two different
\* offending lines
C1_Witness ==
    /\ StrictErr
    /\ LET e == SelectSeq(Content, IsNeither)
       IN  Len(e) >= 2 /\ e[1] # e[2]

\* C2: parse_lenient partitions the lines: blank and comment lines leave no
\* trace, every other line gives exactly one record, variable or error, each
\* sequence keeps the order of the lines, and errors is empty exactly when
\* every such line parsed.
C2_LenientPartition ==
    LenientCalled =>
        LET c == Content
            rl == SelectSeq(c, IsRecord)
            vl == SelectSeq(c, IsOnlyVariable)
            el == SelectSeq(c, IsNeither)
            doc == call.result.doc
            errors == call.result.errors
        IN  /\ Len(doc.records) = Len(rl)
            /\ \A i \in 1..Len(rl) :
                  doc.records[i] = DataRecord_parse(rl[i]).value
            /\ Len(doc.variables) = Len(vl)
            /\ \A i \in 1..Len(vl) :
                  doc.variables[i] = Variable_parse(vl[i]).value
            /\ Len(errors) = Len(el)
            /\ \A i \in 1..Len(el) :
                  errors[i] = [message |-> MsgInvalidLine \o el[i]]
            /\ Len(doc.records) + Len(doc.variables) + Len(errors) = Len(c)
            /\ (errors = <<>>) <=>
                  (\A i \in 1..Len(c) : IsRecord(c[i]) \/ IsVariable(c[i]))

\* C2 witness: a text with a blank or comment line and an offending line
C2_Witness ==
    /\ LenientCalled
    /\ Len(Content) = 1
    /\ Len(lines(text)) = 2
    /\ Len(call.result.errors) = 1

\* some variable is named 'subdomain' in another letter case
HasCaseVariant(doc) ==
    \E i \in 1..Len(doc.variables) :
        /\ eq_ignore_ascii_case(doc.variables[i].name, S_subdomain)
        /\ doc.variables[i].name # S_subdomain

ValuesOfSubdomain == call.op = "AdsTxt::values" /\ call.name = S_subdomain

\* C3 as stated: values("subdomain") and sub_domains() return identical
\* sequences for any Document, whatever the letter case of the names.
C3_ValuesEqualSubDomains ==
    ValuesOfSubdomain => call.result = AdsTxt_sub_domains(call.doc)

\* C3 amended: values("subdomain") and sub_domains() return identical
\* sequences exactly when no variable is named 'subdomain' in another letter
\* case; values("subdomain") leaves such variables out, sub_domains() does not.
C3_ValuesEqualSubDomainsIffExact ==
    ValuesOfSubdomain =>
        ((call.result = AdsTxt_sub_domains(call.doc))
            <=> ~HasCaseVariant(call.doc))

\* C3 witness: a Document with a variable named exactly 'subdomain'
C3_Witness ==
    /\ ValuesOfSubdomain
    /\ call.result # <<>>
    /\ ~HasCaseVariant(call.doc)

\* C4: AccountRelation::parse(t) is Direct exactly when t reads 'direct' in
\* any letter case with whitespace around, Reseller exactly when it reads
\* 'reseller', and otherwise the error 'Invalid account relation: ' followed
\* by t as given.
C4_AccountRelation ==
    call.op = "AccountRelation::parse" =>
        /\ (call.result.ok /\ call.result.value = Direct)
              <=> ReadsAs(text, S_direct)
        /\ (call.result.ok /\ call.result.value = Reseller)
              <=> ReadsAs(text, S_reseller)
        /\ ~call.result.ok =>
              call.result.message = MsgInvalidAccountRelation \o text

\* C4 witness: a token in mixed case with whitespace around it was accepted
C4_Witness ==
    /\ call.op = "AccountRelation::parse"
    /\ call.result.ok
    /\ text # trim(text)
    /\ text # to_lowercase(text)

\* C5: a parsed record has no cert_authority exactly when the line has three
\* comma-separated fields and has the trimmed fourth field exactly when it
\* has four; a line with any other number of fields fails with
\* 'Invalid data record: ' followed by the line.
C5_CertAuthority ==
    call.op = "DataRecord::parse" =>
        /\ call.result.ok =>
              /\ ~call.result.value.cert_authority.some
                    <=> FieldCount(text, ",") = 3
              /\ call.result.value.cert_authority.some
                    <=> FieldCount(text, ",") = 4
              /\ call.result.value.cert_authority.some =>
                    call.result.value.cert_authority.value
                        = trim(After(text, ","))
        /\ FieldCount(text, ",") \notin {3, 4} =>
              /\ ~call.result.ok
              /\ call.result.message = MsgInvalidDataRecord \o text

\* C5 witness: a line of four fields was parsed, whitespace around its fourth
C5_Witness ==
    /\ call.op = "DataRecord::parse"
    /\ call.result.ok
    /\ call.result.value.cert_authority.some
    /\ call.result.value.cert_authority.value # <<>>
    /\ After(text, ",") # trim(After(text, ","))

\* C6: no string stored in a Data Record or a Variable begins or ends with
\* whitespace, whichever of DataRecord::parse, Variable::parse, AdsTxt::parse,
\* AdsTxt::parse_lenient, DataRecord::new or Variable::new built it.
C6_StoredFieldsTrimmed ==
    /\ (call.op = "DataRecord::parse" /\ call.result.ok)
          => RecordTrimmed(call.result.value)
    /\ (call.op = "Variable::parse" /\ call.result.ok)
          => VariableTrimmed(call.result.value)
    /\ StrictOk => DocTrimmed(call.result.value)
    /\ LenientCalled => DocTrimmed(call.result.doc)
    /\ call.op = "DataRecord::new" => RecordTrimmed(call.result)
    /\ call.op = "Variable::new" => VariableTrimmed(call.result)

\* the Document the strict or the lenient parse returned
DocumentReturned == StrictOk \/ LenientCalled
ReturnedDoc == IF StrictCalled THEN call.result.value ELSE call.result.doc

\* C7 as stated: no record of a Document returned by AdsTxt::parse or
\* AdsTxt::parse_lenient has an empty domain.
C7_DomainNonEmpty ==
    DocumentReturned =>
        \A i \in 1..Len(ReturnedDoc.records) :
            ReturnedDoc.records[i].domain # <<>>

\* C7 amended: the domain of a record of a Document returned by AdsTxt::parse
\* or AdsTxt::parse_lenient is empty exactly when its left-trimmed line begins
\* with ',' (an empty first field), and is non-empty otherwise.
C7_DomainEmptyIffLeadingComma ==
    DocumentReturned =>
        LET rl == SelectSeq(Content, IsRecord)
        IN  /\ Len(ReturnedDoc.records) = Len(rl)
            /\ \A i \in 1..Len(rl) :
                  (ReturnedDoc.records[i].domain = <<>>) <=> (rl[i][1] = ",")

\* C7 witness: a Document holding a record with an empty domain
C7_Witness ==
    /\ DocumentReturned
    /\ \E i \in 1..Len(ReturnedDoc.records) :
          ReturnedDoc.records[i].domain = <<>>

\* C8: Variable::parse succeeds exactly on a line with one '=', with the
\* trimmed text before it as name and the trimmed text after it as value;
\* with no '=' or several it fails with 'Invalid variable record: ' followed
\* by the line.
C8_VariableParse ==
    call.op = "Variable::parse" =>
        IF Cardinality(Occurrences(text, "=")) = 1
        THEN /\ call.result.ok
             /\ call.result.value.name = trim(Before(text, "="))
             /\ call.result.value.value = trim(After(text, "="))
        ELSE /\ ~call.result.ok
             /\ call.result.message = MsgInvalidVariableRecord \o text

\* C8 witness: a line with several '=' was rejected
C8_Witness ==
    /\ call.op = "Variable::parse"
    /\ Cardinality(Occurrences(text, "=")) >= 2
    /\ ~call.result.ok

OneEqualsNoComma(l) ==
    Cardinality(Occurrences(l, "=")) = 1 /\ Occurrences(l, ",") = {}
IsRecordNotAssignment(l) == IsRecord(l) /\ ~OneEqualsNoComma(l)

\* C9: in AdsTxt::parse and AdsTxt::parse_lenient a line DataRecord::parse
\* accepts goes to records and never to variables, also when Variable::parse
\* would accept it; a line with one '=' and no comma is never a record.
C9_RecordFirst ==
    DocumentReturned =>
        LET c == Content
        IN  /\ Len(ReturnedDoc.records) = CountTrue([i \in 1..Len(c) |-> IsRecord(c[i])])
            /\ Len(ReturnedDoc.records) = CountTrue([i \in 1..Len(c) |-> IsRecordNotAssignment(c[i])])
            /\ Len(ReturnedDoc.variables)
                  = CountTrue([i \in 1..Len(c) |-> IsVariable(c[i])]) - CountTrue([i \in 1..Len(c) |-> IsBoth(c[i])])

\* C9 witness: a line both parsers accept was stored, as a record
C9_Witness ==
    /\ DocumentReturned
    /\ CountTrue([i \in 1..Len(Content) |-> IsBoth(Content[i])]) >= 1
    /\ Len(ReturnedDoc.records) >= 1
    /\ ReturnedDoc.variables = <<>>

\* a line of three or four fields whose relation is not valid, with one '='
RejectedRecordWithEquals(l) ==
    /\ FieldCount(l, ",") \in {3, 4}
    /\ ~ReadsAs(split(l, ",")[3], S_direct)
    /\ ~ReadsAs(split(l, ",")[3], S_reseller)
    /\ Cardinality(Occurrences(l, "=")) = 1
NotRejectedRecordWithEquals(l) == ~RejectedRecordWithEquals(l)

\* the message is of the 'Invalid ads.txt line' kind and of no other
OnlyInvalidLine(m) ==
    /\ starts_with(m, MsgInvalidLine)
    /\ ~starts_with(m, MsgInvalidAccountRelation)
    /\ ~starts_with(m, MsgInvalidDataRecord)
    /\ ~starts_with(m, MsgInvalidVariableRecord)

\* doc holds the line l as the variable cut at its '='
StoredAsVariable(doc, l) ==
    \E k \in 1..Len(doc.variables) :
        doc.variables[k] = [name |-> trim(Before(l, "=")),
                            value |-> trim(After(l, "="))]

\* C10: a line of three or four fields with an invalid relation and one '='
\* is stored as a Variable and gives no error in AdsTxt::parse and
\* AdsTxt::parse_lenient, and every error of these two is of the
\* 'Invalid ads.txt line: <left-trimmed line>' kind.
C10_RecordErrorDiscarded ==
    LET c == Content
    IN  /\ LenientCalled =>
              /\ \A k \in 1..Len(call.result.errors) :
                    OnlyInvalidLine(call.result.errors[k].message)
              /\ \A i \in 1..Len(c) :
                    RejectedRecordWithEquals(c[i]) =>
                        /\ StoredAsVariable(call.result.doc, c[i])
                        /\ \A k \in 1..Len(call.result.errors) :
                              call.result.errors[k].message
                                  # MsgInvalidLine \o c[i]
              /\ Len(call.result.errors)
                    <= CountTrue([i \in 1..Len(c) |-> NotRejectedRecordWithEquals(c[i])])
        /\ StrictErr =>
              /\ OnlyInvalidLine(call.result.message)
              /\ \E i \in 1..Len(c) :
                    /\ ~RejectedRecordWithEquals(c[i])
                    /\ call.result.message = MsgInvalidLine \o c[i]
        /\ StrictOk =>
              \A i \in 1..Len(c) :
                  RejectedRecordWithEquals(c[i]) =>
                      StoredAsVariable(call.result.value, c[i])

\* C10 witness: such a line was parsed leniently, stored as a variable, and
\* no error was collected
C10_Witness ==
    /\ LenientCalled
    /\ \E i \in 1..Len(Content) : RejectedRecordWithEquals(Content[i])
    /\ call.result.errors = <<>>
    /\ call.result.doc.records = <<>>
    /\ Len(call.result.doc.variables) = 1

====
